---- MODULE Spec2Model ----
(***************************************************************************)
(* The session lifecycle coordinator of agent_manager_chat: SessionManager *)
(* (src/app/lib/config.test.ts:305-620) with its UIStateManager            *)
(* (src/app/lib/config.test.ts:217-274) and SessionPersistenceManager       *)
(* (src/app/lib/sessionPersistence.ts).  The remote provider               *)
(* (@rinardnick/client_mcp) is outside the repository: each of its calls   *)
(* resolves or rejects nondeterministically.  The tool-call quota is the    *)
(* ToolInvocationManager (src/app/lib/toolInvocation.ts), an object of its *)
(* own, driven by ToolSpec.                                                *)
(***************************************************************************)
EXTENDS Integers, Sequences, FiniteSets, TLC

VARIABLES
  ui,      \* UIStateManager.states: session id -> UIState, or Null
  store,   \* the Storage behind SessionPersistenceManager: [full, index, clobber, escaped, items]
  now,     \* Date.now(), in milliseconds
  pool,    \* session ids the provider has not issued yet
  issued,  \* session ids the provider has issued
  calls,   \* coordinator calls in flight: slot -> call record, or Idle
  active,  \* ids initialized or recovered with success and not cleaned up since
  last,    \* the step taken last: [act, id, res, saves, err]
  toolCallCount,  \* ToolInvocationManager.toolCallCount
  maxToolCalls,   \* ToolInvocationManager.maxToolCalls
  invocations,    \* invokeToolOnServer calls: slot -> where the call is
  outcomes,       \* how the invokeToolOnServer calls ended, in order
  requests        \* the requests sent to the tool server (fetch calls)

coordVars == <<ui, store, now, pool, issued, calls, active, last>>

toolVars == <<toolCallCount, maxToolCalls, invocations, outcomes, requests>>

vars == <<ui, store, now, pool, issued, calls, active, last,
          toolCallCount, maxToolCalls, invocations, outcomes, requests>>

----------------------------------------------------------------------------
\* Bounds of the model.

\* The clock stops at MaxClockDays days.
MaxClockDays == 8

\* Adapter streams of every content up to this length are fed to a stream.
MaxFreeChunks == 2

\* invokeToolOnServer calls that can be in flight at once, and the largest
\* ceiling a ToolInvocationManager is built with.
MaxInvocations == 2
MaxCeiling == 3

\* The invokeToolOnServer calls made on one ToolInvocationManager.
MaxCalls == 6

\* The chunks a stream delivers when two calls are interleaved.
MaxPairChunks == 1

\* Program constants.
SESSION_EXPIRY_DAYS == 7
DEFAULT_MAX_TOOL_CALLS == 10
CONFIGURE_MAX_TOOL_CALLS == 10

DayMs == 24 * 60 * 60 * 1000

\* The clock is observed every TickDays days: once before and once after
\* the sessions of the start are older than SESSION_EXPIRY_DAYS.
TickDays == MaxClockDays

Ids == {"s1", "s2"}

\* JavaScript null (an absent object), undefined, and a null error.
Null == [null |-> TRUE]
Undef == "<undefined>"
ErrNull == "<null>"

ProviderError == "provider error"
ChunkError == "chunk error"
UnknownError == "Unknown error"
NoUIStateError == "No UI state found for session"
InitializeError == "Failed to initialize session"
RecoveryError == "Failed to recover session"
CleanupError == "Failed to cleanup session"

ToolName == "t"

Range(s) == {s[i] : i \in 1..Len(s)}

----------------------------------------------------------------------------
\* UIStateManager

UIFields == {"isLoading", "isThinking", "error", "currentTool"}

\* initialState of initializeState: no currentTool key, which reads undefined.
InitialUIState ==
  [isLoading |-> FALSE, isThinking |-> FALSE, error |-> ErrNull,
   currentTool |-> Undef]

\* Mutant: a spread of the update alone.
Merge_UpdateOnly(cur, upd) ==
  [f \in UIFields |-> IF f \in DOMAIN upd THEN upd[f] ELSE InitialUIState[f]]

\* { ...currentState, ...update }: the keys of update win.
Merge(cur, upd) ==
  [f \in UIFields |-> IF f \in DOMAIN upd THEN upd[f] ELSE cur[f]]

GetState(u, id) == u[id]

\* Mutant: initializeState that keeps a state the id already has.
InitializeState_KeepsExisting(u, id) ==
  IF u[id] = Null THEN [u EXCEPT ![id] = InitialUIState] ELSE u

\* states.set(sessionId, initialState), whatever the map held for the id.
InitializeState(u, id) == [u EXCEPT ![id] = InitialUIState]

\* initializeState has no throw: it raises for no id.
InitializeThrows(u, id) == FALSE

\* updateState throws when the id has no state.
UpdateThrows(u, id) == u[id] = Null

UpdateState(u, id, upd) == [u EXCEPT ![id] = Merge(u[id], upd)]

\* Mutant: clearError that clears nothing.
ClearError_KeepsError(u, id) == u

ClearError(u, id) ==
  IF u[id] = Null THEN u
  ELSE [u EXCEPT ![id] = Merge(u[id], [error |-> ErrNull])]

\* Mutant: setError that leaves the loading and thinking flags.
SetError_KeepsIndicators(u, id, e) ==
  IF u[id] = Null THEN u
  ELSE [u EXCEPT ![id] = Merge(u[id], [error |-> e])]

SetError(u, id, e) ==
  IF u[id] = Null THEN u
  ELSE [u EXCEPT ![id] =
          Merge(u[id], [error |-> e, isLoading |-> FALSE, isThinking |-> FALSE])]

\* Mutant: deleteState that clears the whole map.
DeleteState_ClearsAll(u, id) == [i \in DOMAIN u |-> Null]

\* states.delete(sessionId)
DeleteState(u, id) == [u EXCEPT ![id] = Null]

----------------------------------------------------------------------------
\* SessionPersistenceManager over a Storage [full, index, clobber, escaped, items]: full,
\* setItem throws; index, the id array under SESSION_IDS_KEY; clobber, the
\* session JSON under that key when one was written there; items, the
\* session JSON under the key of each other id; escaped, whether an error has
\* left one of the manager's methods.
\* items[id] is the text stored under mcp_session_<id> (Null: no such key),
\* index the list stored under mcp_session_ids (empty: no such key).

\* JSON.stringify drops a key whose value is undefined: of a UIState,
\* only currentTool can be.
StringifyUI(u) ==
  IF u = Null THEN Null
  ELSE [f \in {g \in DOMAIN u : g # "currentTool" \/ u[g] # Undef} |-> u[f]]

\* A value of the optional metadata (Record<string, any>) is a string
\* [str |-> x] or a Date [date |-> x], x its ISO text. JSON.stringify writes
\* a Date through toJSON, as that text.
JsonValue(v) == IF "date" \in DOMAIN v THEN [str |-> v.date] ELSE v

StringifyMetadata(m) == [k \in DOMAIN m |-> JsonValue(m[k])]

\* Mutant: a stringify that leaves the metadata out.
Stringify_DropsMetadata(sess) ==
  [json |-> <<sess.id, sess.lastActive, StringifyUI(sess.uiState)>>]

\* JSON.stringify(sessionData): the text is modelled as a tuple, with a
\* fourth element when the session has metadata.
Stringify(sess) ==
  [json |-> <<sess.id, sess.lastActive, StringifyUI(sess.uiState)>> \o
            (IF "metadata" \in DOMAIN sess
             THEN <<StringifyMetadata(sess.metadata)>> ELSE <<>>)]

\* JSON.parse of a stored session.
Parse(text) ==
  LET j == text.json
  IN IF Len(j) = 4
     THEN [id |-> j[1], lastActive |-> j[2], uiState |-> j[3], metadata |-> j[4]]
     ELSE [id |-> j[1], lastActive |-> j[2], uiState |-> j[3]]

\* A missing mcp_session_ids key reads as the empty list (line 88).
GetSessionIds(s) == s.index

\* The session id whose storage key SESSION_PREFIX + id is SESSION_IDS_KEY,
\* the key of the index ('mcp_session_' + 'ids' = 'mcp_session_ids').
IndexId == "ids"

\* The index key holds a session's JSON rather than an array: the value
\* getSessionIds parses has no includes, filter or map, and calling them
\* throws into the caller's catch.
Clobbered(s) == s.clobber # Null

\* Mutant: a catch that rethrows.
Escapes_Rethrows(threw) == threw

\* catch (error) { console.error(...) }: whether what the try block threw
\* leaves the method.
Escapes(threw) == FALSE

\* The method ended in its catch: escaped records whether an error has ever
\* left a method of the manager.
Caught(s) == [s EXCEPT !.escaped = @ \/ Escapes(TRUE)]

\* setItem of the session, then the index: a rejected write, or an index
\* that is not an array, ends the call in its catch with what was written.
SaveSession(s, sess) ==
  IF s.full THEN Caught(s)
  ELSE IF sess.id = IndexId
       THEN Caught([s EXCEPT !.clobber = Stringify(sess), !.index = <<>>])
       ELSE LET ids == GetSessionIds(s)
                written == [s EXCEPT !.items[sess.id] = Stringify(sess)]
            IN IF Clobbered(s) THEN Caught(written)
               ELSE [written EXCEPT !.index = IF sess.id \in Range(ids)
                                              THEN @
                                              ELSE Append(ids, sess.id)]

\* saveSession of an id other than IndexId over a Storage that accepts the
\* session's item and rejects the write of the index that follows: the
\* catch ends the call with the item written.
SaveSessionIndexRejected(s, sess) ==
  LET written == [s EXCEPT !.items[sess.id] = Stringify(sess)]
  IN IF Clobbered(s) \/ sess.id \notin Range(GetSessionIds(s))
     THEN Caught(written)
     ELSE written

\* deleteSession of an id other than IndexId over a Storage that rejects the
\* write of the index: the item is removed, the index is as it was.
DeleteSessionIndexRejected(s, id) == Caught([s EXCEPT !.items[id] = Null])

\* Under IndexId the item read is the index key's: a session when one was
\* written there (the id array read as a session is not modelled: no
\* action loads IndexId while the key holds the array).
LoadSession(s, id) ==
  IF id = IndexId
  THEN IF Clobbered(s) THEN Parse(s.clobber) ELSE Null
  ELSE IF s.items[id] = Null THEN Null ELSE Parse(s.items[id])

\* Mutant: deleteSession that leaves the id in the index.
DeleteSession_KeepsIndex(s, id) == [s EXCEPT !.items[id] = Null]

\* removeItem never fails; the index is rewritten unless the write is
\* rejected or the index is not an array. Under IndexId the item removed is
\* the index itself, which then reads as the empty list.
DeleteSession(s, id) ==
  IF id = IndexId
  THEN LET removed == [s EXCEPT !.clobber = Null, !.index = <<>>]
       IN IF s.full THEN Caught(removed) ELSE removed
  ELSE LET removed == [s EXCEPT !.items[id] = Null]
       IN IF s.full \/ Clobbered(s) THEN Caught(removed)
          ELSE [removed EXCEPT
                  !.index = SelectSeq(GetSessionIds(s), LAMBDA x : x # id)]

\* getAllSessions: the index mapped through loadSession, nulls dropped.
RECURSIVE LoadAll(_, _)
LoadAll(s, ids) ==
  IF ids = <<>> THEN <<>>
  ELSE LET one == LoadSession(s, Head(ids))
       IN (IF one = Null THEN <<>> ELSE <<one>>) \o LoadAll(s, Tail(ids))

GetAllSessions(s) ==
  IF Clobbered(s) THEN <<>> ELSE LoadAll(s, GetSessionIds(s))

\* Mutant: a session expires once its age reaches the threshold.
Expired_AtThreshold(sess, maxAgeMs, t) == (t - sess.lastActive) >= maxAgeMs

\* sessionAge > maxAgeMs
Expired(sess, maxAgeMs, t) == (t - sess.lastActive) > maxAgeMs

\* The loop of cleanupExpiredSessions over the sessions read at its start:
\* the storage after it and the ids it removed.
RECURSIVE ExpireLoop(_, _, _, _)
ExpireLoop(s, sessions, maxAgeMs, t) ==
  IF sessions = <<>> THEN [store |-> s, expired |-> <<>>]
  ELSE LET sess == Head(sessions)
           old == Expired(sess, maxAgeMs, t)
           rest == ExpireLoop(IF old THEN DeleteSession(s, sess.id) ELSE s,
                              Tail(sessions), maxAgeMs, t)
       IN [store |-> rest.store,
           expired |-> (IF old THEN <<sess.id>> ELSE <<>>) \o rest.expired]

\* Mutant: a sweep that also removes the index entries without a record.
CleanupExpiredSessions_DropsOrphans(s, maxAgeDays, t) ==
  LET swept == ExpireLoop(s, GetAllSessions(s), maxAgeDays * 24 * 60 * 60 * 1000, t)
  IN [store |-> [swept.store EXCEPT
                   !.index = SelectSeq(@, LAMBDA x : LoadSession(swept.store, x) # Null)],
      expired |-> swept.expired]

CleanupExpiredSessions(s, maxAgeDays, t) ==
  ExpireLoop(s, GetAllSessions(s), maxAgeDays * 24 * 60 * 60 * 1000, t)

\* Mutant: updateSessionActivity that leaves lastActive as it was.
UpdateSessionActivity_NoTouch(s, id, t) == s

UpdateSessionActivity(s, id, t) ==
  LET sess == LoadSession(s, id)
  IN IF sess = Null THEN s
     ELSE SaveSession(s, [sess EXCEPT !.lastActive = t])

----------------------------------------------------------------------------
\* SessionManager: the world a handler runs in is [ui, store, saves], saves
\* counting the saveSession calls the coordinator has made in the step.

World(u, s) == [ui |-> u, store |-> s, saves |-> 0]

\* Mutant: persistSession that stamps the record with the epoch.
PersistSession_StaleStamp(w, id, uiState, t) ==
  [w EXCEPT !.store = SaveSession(w.store,
                        [id |-> id, lastActive |-> 0, uiState |-> uiState]),
            !.saves = @ + 1]

\* persistSession(sessionId, uiState)
PersistSession(w, id, uiState, t) ==
  [w EXCEPT !.store = SaveSession(w.store,
                        [id |-> id, lastActive |-> t, uiState |-> uiState]),
            !.saves = @ + 1]

\* The outcome of a handler's step: the world after it and the error it
\* raises to its caller (ErrNull: none).
Outcome(w, err) == [ui |-> w.ui, store |-> w.store, saves |-> w.saves, err |-> err]

\* initializeSession after the provider returned the session: the UI state
\* and its first snapshot (lines 330-336).
InitializeCreated(w, id, t) ==
  LET w1 == [w EXCEPT !.ui = InitializeState(w.ui, id)]
  IN PersistSession(w1, id, GetState(w1.ui, id), t)

\* Mutant: the catch that cleans up the UI state only.
InitializeRollback_UIOnly(w, id) ==
  [w EXCEPT !.ui = DeleteState(w.ui, id)]

\* initializeSession's catch once a session id is known (lines 363-368).
InitializeRollback(w, id) ==
  [w EXCEPT !.ui = DeleteState(w.ui, id),
            !.store = DeleteSession(w.store, id)]

\* Mutant: a failed discovery that rolls the session back.
DiscoverCatch_RollsBack(w, id) ==
  [w EXCEPT !.ui = DeleteState(w.ui, id),
            !.store = DeleteSession(w.store, id)]

\* The catch around discoverCapabilities (lines 357-360): a warning only.
DiscoverCatch(w, id) == w

\* Mutant: the catch that sets the error without persisting it.
SendCatch_NoPersist(w, id, msg, t) ==
  [w EXCEPT !.ui = SetError(w.ui, id, msg)]

\* The catch of sendMessage and the outer catch of sendMessageStream:
\* setError, then persistSession(id, getState(id)!).
SendCatch(w, id, msg, t) ==
  LET w1 == [w EXCEPT !.ui = SetError(w.ui, id, msg)]
  IN PersistSession(w1, id, GetState(w1.ui, id), t)

\* Mutant: a rejected send that leaves a UI state behind.
SendRejected_InitializesState(w, id) ==
  Outcome([w EXCEPT !.ui = InitializeState(w.ui, id)], NoUIStateError)

\* sendMessage and sendMessageStream without a UI state: the throw before
\* the try (lines 379-382, 425-429).
SendRejected(w, id) == Outcome(w, NoUIStateError)

\* Mutant: the start of a send that does not set isLoading.
SendBegin_NotLoading(w, id, t) ==
  LET w1 == [w EXCEPT !.ui = UpdateState(w.ui, id, [error |-> ErrNull])]
  IN PersistSession(w1, id, GetState(w1.ui, id), t)

\* sendMessage and sendMessageStream up to the provider call: isLoading
\* true, error null, persisted (lines 385-391, 432-438).
SendBegin(w, id, t) ==
  LET w1 == [w EXCEPT !.ui = UpdateState(w.ui, id,
                                [isLoading |-> TRUE, error |-> ErrNull])]
  IN PersistSession(w1, id, GetState(w1.ui, id), t)

\* Mutant: a successful send that does not persist its result.
SendSucceed_NoPersist(w, id, t) ==
  IF UpdateThrows(w.ui, id)
  THEN Outcome(SendCatch(w, id, NoUIStateError, t), NoUIStateError)
  ELSE Outcome([w EXCEPT !.ui = UpdateState(w.ui, id, [isLoading |-> FALSE])],
               ErrNull)

\* sendMessage after the provider's send and activity update resolved
\* (lines 396-401); updateState throwing lands in the catch.
SendSucceed(w, id, t) ==
  IF UpdateThrows(w.ui, id)
  THEN Outcome(SendCatch(w, id, NoUIStateError, t), NoUIStateError)
  ELSE LET w1 == [w EXCEPT !.ui = UpdateState(w.ui, id, [isLoading |-> FALSE])]
       IN Outcome(PersistSession(w1, id, GetState(w1.ui, id), t), ErrNull)

\* The chunks of the provider's stream.
Thinking == [type |-> "thinking"]
ToolStart == [type |-> "tool_start", content |-> ToolName]
ToolResult == [type |-> "tool_result"]
Content == [type |-> "content", content |-> "hi"]
Done == [type |-> "done"]
ErrorChunk == [type |-> "error", error |-> ChunkError]
ErrorNoMessage == [type |-> "error"]

Chunks ==
  {Thinking, ToolStart, ToolResult, Content, Done, ErrorChunk, ErrorNoMessage}

Field(c, f) == IF f \in DOMAIN c THEN c[f] ELSE Undef

\* chunk.error || 'Unknown error'
ChunkErrorMessage(c) ==
  IF Field(c, "error") = Undef THEN UnknownError ELSE c.error

\* Mutant: tool chunks persisted too.
PersistedChunkTypes_WithTools ==
  {"thinking", "tool_start", "tool_result", "error", "done"}

\* The chunk types whose state change is persisted (line 484).
PersistedChunkTypes == {"thinking", "error", "done"}

\* Mutant: a done chunk that leaves isThinking.
ChunkUpdate_DoneKeepsThinking(c) ==
  CASE c.type = "thinking" -> [isThinking |-> TRUE]
    [] c.type = "tool_start" -> [currentTool |-> Field(c, "content")]
    [] c.type = "tool_result" -> [currentTool |-> Undef]
    [] c.type = "done" -> [isLoading |-> FALSE, currentTool |-> Undef]

\* The update a chunk makes through updateState (lines 450-478).
ChunkUpdate(c) ==
  CASE c.type = "thinking" -> [isThinking |-> TRUE]
    [] c.type = "tool_start" -> [currentTool |-> Field(c, "content")]
    [] c.type = "tool_result" -> [currentTool |-> Undef]
    [] c.type = "done" ->
         [isLoading |-> FALSE, isThinking |-> FALSE, currentTool |-> Undef]

\* Mutant: a chunk yielded without its payload.
Forward_TypeOnly(c) == [type |-> c.type]

\* The chunk the wrapped generator yields for a chunk of the adapter (line 489).
Forward(c) == c

\* Mutant: the generator's catch without its persistSession.
StreamCatch_NoPersist(w, id, msg, t) ==
  [w EXCEPT !.ui = SetError(w.ui, id, msg)]

\* The generator's catch (lines 496-507).
StreamCatch(w, id, msg, t) ==
  LET w1 == [w EXCEPT !.ui = SetError(w.ui, id, msg)]
      errorState == GetState(w1.ui, id)
  IN IF errorState # Null THEN PersistSession(w1, id, errorState, t) ELSE w1

\* One turn of the for-await loop (lines 446-490): the switch, the persist
\* of significant changes, the yield.  yields is the sequence of chunks
\* handed to the consumer in this turn.
HandleChunk(w, id, c, t) ==
  IF c.type = "error"
  THEN LET w1 == [w EXCEPT !.ui = SetError(w.ui, id, ChunkErrorMessage(c))]
           updatedState == GetState(w1.ui, id)
           w2 == IF updatedState # Null /\ c.type \in PersistedChunkTypes
                 THEN PersistSession(w1, id, updatedState, t) ELSE w1
       IN [out |-> Outcome(w2, ErrNull), yields |-> <<Forward(c)>>]
  ELSE IF c.type \in {"thinking", "tool_start", "tool_result", "done"}
  THEN IF UpdateThrows(w.ui, id)
       THEN [out |-> Outcome(StreamCatch(w, id, NoUIStateError, t), NoUIStateError),
             yields |-> <<>>]
       ELSE LET w1 == [w EXCEPT !.ui = UpdateState(w.ui, id, ChunkUpdate(c))]
                updatedState == GetState(w1.ui, id)
                w2 == IF c.type \in PersistedChunkTypes
                      THEN PersistSession(w1, id, updatedState, t) ELSE w1
            IN [out |-> Outcome(w2, ErrNull), yields |-> <<Forward(c)>>]
  ELSE [out |-> Outcome(w, ErrNull), yields |-> <<Forward(c)>>]

\* The generator after the adapter's stream ended and the provider's
\* activity update resolved (line 495).
StreamFinish(w, id, t) ==
  [w EXCEPT !.store = UpdateSessionActivity(w.store, id, t)]

\* Mutant: recovery that restores the snapshot's error as well.
RecoverSucceed_KeepsError(w, id, persisted, t) ==
  LET u1 == IF persisted # Null
            THEN LET d == IF GetState(w.ui, id) # Null
                          THEN DeleteState(w.ui, id) ELSE w.ui
                     i == InitializeState(d, id)
                     snap == IF persisted.uiState = Null
                             THEN [error |-> ErrNull]
                             ELSE persisted.uiState
                 IN UpdateState(i, id, snap)
            ELSE IF GetState(w.ui, id) = Null
                 THEN InitializeState(w.ui, id)
                 ELSE ClearError(w.ui, id)
  IN [w EXCEPT !.ui = u1, !.store = UpdateSessionActivity(w.store, id, t)]

\* recoverSession after getSession resolved (lines 532-556); persisted is
\* what loadSession returned before the await.
RecoverSucceed(w, id, persisted, t) ==
  LET u1 == IF persisted # Null
            THEN LET d == IF GetState(w.ui, id) # Null
                          THEN DeleteState(w.ui, id) ELSE w.ui
                     i == InitializeState(d, id)
                     snap == IF persisted.uiState = Null
                             THEN [error |-> ErrNull]
                             ELSE [f \in DOMAIN persisted.uiState \cup {"error"} |->
                                     IF f = "error" THEN ErrNull
                                     ELSE persisted.uiState[f]]
                 IN UpdateState(i, id, snap)
            ELSE IF GetState(w.ui, id) = Null
                 THEN InitializeState(w.ui, id)
                 ELSE ClearError(w.ui, id)
  IN [w EXCEPT !.ui = u1, !.store = UpdateSessionActivity(w.store, id, t)]

\* Mutant: the catch that leaves the persisted record.
RecoverCatch_KeepsRecord(w, id) == w

\* recoverSession's catch (lines 557-570).
RecoverCatch(w, id) ==
  IF LoadSession(w.store, id) # Null
  THEN [w EXCEPT !.store = DeleteSession(w.store, id)]
  ELSE w

\* Mutant: cleanupSession that leaves the UI state in place.
CleanupSucceed_KeepsUIState(w, id) ==
  [w EXCEPT !.store = DeleteSession(w.store, id)]

\* cleanupSession after the provider's cleanup resolved (lines 582-584).
CleanupSucceed(w, id) ==
  [w EXCEPT !.ui = DeleteState(w.ui, id),
            !.store = DeleteSession(w.store, id)]

\* Mutant: the catch that deletes what the try would have deleted.
CleanupCatch_Deletes(w, id) ==
  [w EXCEPT !.ui = DeleteState(w.ui, id),
            !.store = DeleteSession(w.store, id)]

\* cleanupSession's catch (lines 585-591): nothing is deleted.
CleanupCatch(w, id) == w

Idle == [op |-> "idle"]

\* What the last step was: its action, the session id, how it ended, the
\* saveSession calls it made, and the error it raised to the caller.
Step(act, id, res, saves, err) ==
  [act |-> act, id |-> id, res |-> res, saves |-> saves, err |-> err]

\* The error a handler's step raised (ErrNull: it raised none).
Raised(w) == IF "err" \in DOMAIN w THEN w.err ELSE ErrNull

EmptyStore ==
  [full |-> FALSE, index |-> <<>>, clobber |-> Null, escaped |-> FALSE,
   items |-> [i \in Ids |-> Null]]

\* A new SessionManager(): empty UI states, no call in flight, and the
\* expiry sweep of the constructor over whatever the storage holds.
\* Mutant: a constructor that does not sweep.
Construct_NoSweep(s, t) == s

Construct(s, t) ==
  CleanupExpiredSessions(s, SESSION_EXPIRY_DAYS, t).store

InitWith(slots, ids) ==
  /\ ui = [i \in Ids |-> Null]
  /\ store = Construct(EmptyStore, 0)
  /\ now = 0
  /\ pool = ids
  /\ issued = {}
  /\ calls = [k \in slots |-> Idle]
  /\ active = {}
  /\ last = Step("construct", "-", "ok", 0, ErrNull)

\* Time passes, between calls: no call stays in flight for TickDays days.
Tick ==
  /\ \A k \in DOMAIN calls : calls[k] = Idle
  /\ now + TickDays * DayMs <= MaxClockDays * DayMs
  /\ now' = now + TickDays * DayMs
  /\ UNCHANGED <<ui, store, pool, issued, calls, active, last>>
  /\ UNCHANGED toolVars

----------------------------------------------------------------------------
\* The adapter streams fed to sendMessageStream.

\* The stream of the streaming-state scenario, and the stream of the
\* repository's streaming persistence test (sessionRecovery.test.ts:257-262).
Canonical == <<Thinking, ToolStart, ToolResult, Content, Done>>
ErrorMidway == <<Thinking, Content, ErrorChunk, Done>>

IsPrefix(p, s) == Len(p) <= Len(s) /\ p = SubSeq(s, 1, Len(p))

\* What the adapter's stream may have produced so far: anything up to
\* MaxFreeChunks chunks, and the beginnings of the two streams above.
Producible(p) ==
  \/ Len(p) <= MaxFreeChunks
  \/ IsPrefix(p, Canonical)
  \/ IsPrefix(p, ErrorMidway)

\* The ids a caller can name: those the provider has issued.
Issued == issued

Free(k) == calls[k] = Idle

\* The step of slot k: the world w after it, the call left in flight.
Advance(k, w, call, act, id, res) ==
  /\ ui' = w.ui
  /\ store' = w.store
  /\ calls' = [calls EXCEPT ![k] = call]
  /\ last' = Step(act, id, res, w.saves, Raised(w))
  /\ UNCHANGED toolVars

----------------------------------------------------------------------------
\* initializeSession(config, servers?, maxToolCalls?)

\* maxToolCalls || 10, for an argument that is omitted (Null) or a number
\* [value |-> n]: undefined and 0 are falsy.
MaxToolCallsOrDefault(arg) ==
  IF arg = Null \/ arg.value = 0 THEN CONFIGURE_MAX_TOOL_CALLS ELSE arg.value

\* What configure is called with (lines 341-344), but for the servers.
ConfigureArgument(arg) == [max_tool_calls |-> MaxToolCallsOrDefault(arg)]

\* The call: awaits the provider's initializeSession.
InitStart(k) ==
  /\ Free(k)
  /\ pool # {}
  /\ \E servers \in BOOLEAN :
       Advance(k, World(ui, store),
               [op |-> "init", pc |-> "creating", servers |-> servers,
                maxToolCalls |-> Null],
               "init_start", "-", "ok")
  /\ UNCHANGED <<now, pool, issued, active>>

\* The call with servers and a maxToolCalls argument.
InitStartWithLimit(k) ==
  /\ Free(k)
  /\ pool # {}
  /\ \E n \in 0..MaxCeiling :
       Advance(k, World(ui, store),
               [op |-> "init", pc |-> "creating", servers |-> TRUE,
                maxToolCalls |-> [value |-> n]],
               "init_start", "-", "ok")
  /\ UNCHANGED <<now, pool, issued, active>>

\* The provider rejects: no session id is known (lines 363-375).
InitCreateFail(k) ==
  /\ calls[k].op = "init" /\ calls[k].pc = "creating"
  /\ Advance(k, Outcome(World(ui, store), InitializeError), Idle,
             "init", "-", "create_failed")
  /\ UNCHANGED <<now, pool, issued, active>>

\* The provider returns a session with a new id, with or without mcpClient.
InitCreated(k) ==
  /\ calls[k].op = "init" /\ calls[k].pc = "creating"
  /\ \E id \in pool, client \in BOOLEAN :
       /\ pool' = pool \ {id}
       /\ issued' = issued \cup {id}
       /\ Advance(k, InitializeCreated(World(ui, store), id, now),
                  [op |-> "init", id |-> id, client |-> client,
                   pc |-> IF calls[k].servers /\ client
                          THEN "configuring" ELSE "discovering",
                   maxToolCalls |-> calls[k].maxToolCalls,
                   configure |-> IF calls[k].servers /\ client
                                 THEN ConfigureArgument(calls[k].maxToolCalls)
                                 ELSE Null],
                  "init_created", id, "ok")
  /\ UNCHANGED <<now, active>>

InitConfigured(k) ==
  /\ calls[k].op = "init" /\ calls[k].pc = "configuring"
  /\ Advance(k, World(ui, store), [calls[k] EXCEPT !.pc = "discovering"],
             "init_configured", calls[k].id, "ok")
  /\ UNCHANGED <<now, pool, issued, active>>

\* configure rejects: the rollback, then the error is raised.
InitConfigureFail(k) ==
  /\ calls[k].op = "init" /\ calls[k].pc = "configuring"
  /\ Advance(k, Outcome(InitializeRollback(World(ui, store), calls[k].id),
                        InitializeError),
             Idle, "init", calls[k].id, "configure_failed")
  /\ UNCHANGED <<now, pool, issued, active>>

\* discoverCapabilities resolves or rejects (a rejection is only logged):
\* the session is returned.  Without mcpClient nothing is awaited on.
InitDiscovered(k) ==
  /\ calls[k].op = "init" /\ calls[k].pc = "discovering"
  /\ \E res \in (IF calls[k].client THEN {"ok", "discover_failed"} ELSE {"ok"}) :
       Advance(k, IF res = "discover_failed"
                  THEN DiscoverCatch(World(ui, store), calls[k].id)
                  ELSE World(ui, store),
               Idle, "init", calls[k].id, res)
  /\ active' = active \cup {calls[k].id}
  /\ UNCHANGED <<now, pool, issued>>

----------------------------------------------------------------------------
\* sendMessage(sessionId, message)

SendStart(k) ==
  /\ Free(k)
  /\ \E id \in Ids :
       IF GetState(ui, id) = Null
       THEN Advance(k, SendRejected(World(ui, store), id), Idle,
                    "send", id, "no_ui_state")
       ELSE Advance(k, SendBegin(World(ui, store), id, now),
                    [op |-> "send", id |-> id, pc |-> "sending"],
                    "send_start", id, "ok")
  /\ UNCHANGED <<now, pool, issued, active>>

\* The provider's sendMessage resolves: updateSessionActivity is awaited.
SendProviderOk(k) ==
  /\ calls[k].op = "send" /\ calls[k].pc = "sending"
  /\ Advance(k, World(ui, store), [calls[k] EXCEPT !.pc = "activity"],
             "send_sent", calls[k].id, "ok")
  /\ UNCHANGED <<now, pool, issued, active>>

\* The provider's sendMessage or updateSessionActivity rejects.
SendProviderFail(k) ==
  /\ calls[k].op = "send"
  /\ Advance(k, Outcome(SendCatch(World(ui, store), calls[k].id,
                                  ProviderError, now), ProviderError),
             Idle, "send", calls[k].id, "failed")
  /\ UNCHANGED <<now, pool, issued, active>>

SendDone(k) ==
  /\ calls[k].op = "send" /\ calls[k].pc = "activity"
  /\ LET r == SendSucceed(World(ui, store), calls[k].id, now)
     IN Advance(k, r, Idle, "send", calls[k].id,
                IF r.err = ErrNull THEN "ok" ELSE "failed")
  /\ UNCHANGED <<now, pool, issued, active>>

----------------------------------------------------------------------------
\* sendMessageStream(sessionId, message)

\* The call: it returns the generator, not yet started, over the adapter's
\* stream.  produced are the chunks the adapter has produced, delivered
\* those the generator has yielded, writes the saveSession calls made for
\* them.
StreamStart(k) ==
  /\ Free(k)
  /\ \E id \in Ids :
       IF GetState(ui, id) = Null
       THEN Advance(k, SendRejected(World(ui, store), id), Idle,
                    "stream", id, "no_ui_state")
       ELSE Advance(k, SendBegin(World(ui, store), id, now),
                    [op |-> "stream", id |-> id, pc |-> "open",
                     produced |-> <<>>, delivered |-> <<>>, writes |-> 0],
                    "stream_start", id, "ok")
  /\ UNCHANGED <<now, pool, issued, active>>

\* The provider's sendMessageStream throws before a stream exists
\* (lines 510-521).
StreamStartFail(k) ==
  /\ Free(k)
  /\ \E id \in Issued :
       /\ GetState(ui, id) # Null
       /\ LET w == SendCatch(SendBegin(World(ui, store), id, now),
                             id, ProviderError, now)
          IN Advance(k, Outcome(w, ProviderError), Idle,
                     "stream", id, "start_failed")
  /\ UNCHANGED <<now, pool, issued, active>>

\* The consumer asks for the next chunk and the adapter's stream has one.
StreamChunk(k) ==
  /\ calls[k].op = "stream" /\ calls[k].pc = "open"
  /\ \E c \in Chunks :
       /\ Producible(Append(calls[k].produced, c))
       /\ LET r == HandleChunk(World(ui, store), calls[k].id, c, now)
          IN IF r.out.err = ErrNull
             THEN Advance(k, r.out,
                          [calls[k] EXCEPT !.produced = Append(@, c),
                                           !.delivered = @ \o r.yields,
                                           !.writes = @ + r.out.saves],
                          "chunk", calls[k].id, c.type)
             ELSE Advance(k, r.out, Idle, "stream", calls[k].id, "failed")
  /\ UNCHANGED <<now, pool, issued, active>>

\* The adapter's stream throws instead of producing its next chunk.
StreamAdapterFail(k) ==
  /\ calls[k].op = "stream" /\ calls[k].pc = "open"
  /\ Advance(k, Outcome(StreamCatch(World(ui, store), calls[k].id,
                                    ProviderError, now), ProviderError),
             Idle, "stream", calls[k].id, "failed")
  /\ UNCHANGED <<now, pool, issued, active>>

\* The adapter's stream has ended: updateSessionActivity is awaited.
StreamExhausted(k) ==
  /\ calls[k].op = "stream" /\ calls[k].pc = "open"
  /\ Advance(k, World(ui, store), [calls[k] EXCEPT !.pc = "activity"],
             "stream_exhausted", calls[k].id, "ok")
  /\ UNCHANGED <<now, pool, issued, active>>

\* updateSessionActivity resolves: the generator finishes.
StreamDone(k) ==
  /\ calls[k].op = "stream" /\ calls[k].pc = "activity"
  /\ Advance(k, StreamFinish(World(ui, store), calls[k].id, now), Idle,
             "stream", calls[k].id, "ok")
  /\ UNCHANGED <<now, pool, issued, active>>

\* updateSessionActivity rejects: the generator's catch.
StreamActivityFail(k) ==
  /\ calls[k].op = "stream" /\ calls[k].pc = "activity"
  /\ Advance(k, Outcome(StreamCatch(World(ui, store), calls[k].id,
                                    ProviderError, now), ProviderError),
             Idle, "stream", calls[k].id, "failed")
  /\ UNCHANGED <<now, pool, issued, active>>

\* The consumer stops iterating (or never starts): the generator is
\* dropped where it is suspended; none of its code runs.
StreamAbandon(k) ==
  /\ calls[k].op = "stream" /\ calls[k].pc = "open"
  /\ Advance(k, World(ui, store), Idle, "stream", calls[k].id, "abandoned")
  /\ UNCHANGED <<now, pool, issued, active>>

----------------------------------------------------------------------------
\* recoverSession(sessionId)

\* The call: loadSession, then getSession is awaited.
RecoverStart(k) ==
  /\ Free(k)
  /\ \E id \in Issued :
       Advance(k, World(ui, store),
               [op |-> "recover", id |-> id, pc |-> "getting",
                persisted |-> LoadSession(store, id)],
               "recover_start", id, "ok")
  /\ UNCHANGED <<now, pool, issued, active>>

RecoverOk(k) ==
  /\ calls[k].op = "recover"
  /\ Advance(k, RecoverSucceed(World(ui, store), calls[k].id,
                               calls[k].persisted, now),
             Idle, "recover", calls[k].id, "ok")
  /\ active' = active \cup {calls[k].id}
  /\ UNCHANGED <<now, pool, issued>>

RecoverFail(k) ==
  /\ calls[k].op = "recover"
  /\ Advance(k, Outcome(RecoverCatch(World(ui, store), calls[k].id),
                        RecoveryError),
             Idle, "recover", calls[k].id, "failed")
  /\ UNCHANGED <<now, pool, issued, active>>

----------------------------------------------------------------------------
\* cleanupSession(sessionId)

CleanupStart(k) ==
  /\ Free(k)
  /\ \E id \in Issued :
       Advance(k, World(ui, store), [op |-> "cleanup", id |-> id],
               "cleanup_start", id, "ok")
  /\ UNCHANGED <<now, pool, issued, active>>

CleanupOk(k) ==
  /\ calls[k].op = "cleanup"
  /\ Advance(k, CleanupSucceed(World(ui, store), calls[k].id), Idle,
             "cleanup", calls[k].id, "ok")
  /\ active' = active \ {calls[k].id}
  /\ UNCHANGED <<now, pool, issued>>

\* The provider's cleanup rejects: nothing is deleted.
CleanupFail(k) ==
  /\ calls[k].op = "cleanup"
  /\ Advance(k, Outcome(CleanupCatch(World(ui, store), calls[k].id),
                        CleanupError),
             Idle, "cleanup", calls[k].id, "failed")
  /\ UNCHANGED <<now, pool, issued, active>>

----------------------------------------------------------------------------
\* cleanupExpiredSessions(maxAgeDays?) on demand, and a new SessionManager.

SweepDays == {SESSION_EXPIRY_DAYS, 10}

ExpireOld ==
  /\ \E days \in SweepDays :
       LET swept == CleanupExpiredSessions(store, days, now)
       IN /\ store' = swept.store
          /\ last' = IF swept.expired = <<>> THEN last
                     ELSE Step("expire", "-", "ok", 0, ErrNull)
  /\ UNCHANGED <<ui, now, pool, issued, calls, active>>
  /\ UNCHANGED toolVars

\* The page is loaded again: a new SessionManager over the same storage.
\* The calls of the old one are gone with it.
Restart ==
  /\ ui' = [i \in Ids |-> Null]
  /\ store' = Construct(store, now)
  /\ calls' = [k \in DOMAIN calls |-> Idle]
  /\ active' = {}
  /\ last' = Step("construct", "-", "ok", 0, ErrNull)
  /\ UNCHANGED <<now, pool, issued>>
  /\ UNCHANGED toolVars

CallStep(k) ==
  \/ InitStart(k) \/ InitCreateFail(k) \/ InitCreated(k)
  \/ InitConfigured(k) \/ InitConfigureFail(k) \/ InitDiscovered(k)
  \/ SendStart(k) \/ SendProviderOk(k) \/ SendProviderFail(k) \/ SendDone(k)
  \/ StreamStart(k) \/ StreamStartFail(k) \/ StreamChunk(k)
  \/ StreamAdapterFail(k) \/ StreamExhausted(k) \/ StreamDone(k)
  \/ StreamActivityFail(k) \/ StreamAbandon(k)
  \/ RecoverStart(k) \/ RecoverOk(k) \/ RecoverFail(k)
  \/ CleanupStart(k) \/ CleanupOk(k) \/ CleanupFail(k)

----------------------------------------------------------------------------
\* ToolInvocationManager (src/app/lib/toolInvocation.ts)

ToolSlots == 1..MaxInvocations

\* The ceilings the manager is built with.
Ceilings == 0..MaxCeiling

\* Where an invokeToolOnServer call is, or how its last call ended:
\* returned a result, or threw for the limit, for fetch rejecting, for a
\* response that is not ok, or for response.json() rejecting.
Awaiting == {"fetching", "reading"}
Ended == {"returned", "limit", "transport", "status", "unreadable"}

\* new ToolInvocationManager(maxToolCalls)
ToolConstruct(n) ==
  /\ toolCallCount = 0
  /\ maxToolCalls = n
  /\ invocations = [j \in ToolSlots |-> "idle"]
  /\ outcomes = <<>>
  /\ requests = 0

\* Mutant: a limit test that lets one call more through.
LimitReached_OffByOne(count, max) == count > max

\* The limit test of invokeToolOnServer (line 51).
LimitReached(count, max) == count >= max

\* this.toolCallCount++ (line 69)
Increment(count) == count + 1

getToolCallCount == toolCallCount

\* The calls made so far: those that ended and those in flight.
Started ==
  Len(outcomes) + Cardinality({j \in ToolSlots : invocations[j] \in Awaiting})

\* A step of call j: where it goes and the count it leaves.  A step to
\* "fetching" is the fetch call; a step that ends the call is recorded.
ToolStep(j, to, count) ==
  /\ invocations' = [invocations EXCEPT ![j] = to]
  /\ toolCallCount' = count
  /\ outcomes' = IF to \in Ended THEN Append(outcomes, to) ELSE outcomes
  /\ requests' = IF to = "fetching" THEN requests + 1 ELSE requests
  /\ UNCHANGED maxToolCalls
  /\ UNCHANGED coordVars

\* The call: below the limit it sends the request and awaits fetch.
InvokeStart(j) ==
  /\ invocations[j] \notin Awaiting
  /\ Started < MaxCalls
  /\ ~LimitReached(toolCallCount, maxToolCalls)
  /\ ToolStep(j, "fetching", toolCallCount)

\* The call at the limit: it throws before any request (lines 51-54).
InvokeRefused(j) ==
  /\ invocations[j] \notin Awaiting
  /\ Started < MaxCalls
  /\ LimitReached(toolCallCount, maxToolCalls)
  /\ ToolStep(j, "limit", toolCallCount)

\* fetch rejects.
FetchFail(j) ==
  /\ invocations[j] = "fetching"
  /\ ToolStep(j, "transport", toolCallCount)

\* The server responds with a status that is not ok (lines 65-67).
FetchNotOk(j) ==
  /\ invocations[j] = "fetching"
  /\ ToolStep(j, "status", toolCallCount)

\* The server responds ok: the count is incremented, then the body is
\* awaited (lines 69-71).
FetchOk(j) ==
  /\ invocations[j] = "fetching"
  /\ ToolStep(j, "reading", Increment(toolCallCount))

\* response.json() resolves: the result is returned.
ReadOk(j) ==
  /\ invocations[j] = "reading"
  /\ ToolStep(j, "returned", toolCallCount)

\* response.json() rejects: the call throws (lines 72-78).
ReadFail(j) ==
  /\ invocations[j] = "reading"
  /\ ToolStep(j, "unreadable", toolCallCount)

InvokeStep(j) ==
  \/ InvokeStart(j) \/ InvokeRefused(j)
  \/ FetchFail(j) \/ FetchNotOk(j) \/ FetchOk(j)
  \/ ReadOk(j) \/ ReadFail(j)

----------------------------------------------------------------------------
\* One coordinator, one session, one call at a time.
Init == InitWith({1}, {"s1"}) /\ ToolConstruct(DEFAULT_MAX_TOOL_CALLS)

Next ==
  \/ \E k \in DOMAIN calls : CallStep(k)
  \/ Tick
  \/ ExpireOld
  \/ Restart

Spec == Init /\ [][Next]_vars

\* One ToolInvocationManager with up to MaxInvocations calls in flight.
ToolInit == InitWith({1}, {"s1"}) /\ \E n \in Ceilings : ToolConstruct(n)

ToolNext == \E j \in ToolSlots : InvokeStep(j)

ToolSpec == ToolInit /\ [][ToolNext]_vars

\* The same manager called sequentially (each call awaited before the
\* next) against a server whose round trips succeed.
NoneInFlight == \A i \in ToolSlots : invocations[i] \notin Awaiting

SequentialToolNext ==
  \E j \in ToolSlots :
    \/ NoneInFlight /\ InvokeStart(j)
    \/ NoneInFlight /\ InvokeRefused(j)
    \/ FetchOk(j)
    \/ ReadOk(j)

SequentialToolSpec == ToolInit /\ [][SequentialToolNext]_vars

\* One coordinator, two sessions, two calls in flight at a time, their steps
\* interleaved in any order: the calls of slot 1 are on s1, those of slot 2
\* on s2; streams carry up to MaxPairChunks chunks, of the kinds that
\* change the UIState.
PairChunks == {Thinking, ToolStart, ErrorChunk, Done}

SlotSession(k) == IF k = 1 THEN "s1" ELSE "s2"

PairBound ==
  \A k \in DOMAIN calls :
    /\ calls[k].op = "stream" =>
         /\ Len(calls[k].produced) <= MaxPairChunks
         /\ Range(calls[k].produced) \subseteq PairChunks
    /\ "id" \in DOMAIN calls[k] => calls[k].id = SlotSession(k)

PairInit == InitWith({1, 2}, Ids) /\ ToolConstruct(DEFAULT_MAX_TOOL_CALLS)

PairNext ==
  \E k \in DOMAIN calls :
    CallStep(k) /\ PairBound' /\ (last'.id \in Ids => last'.id = SlotSession(k))

PairSpec == PairInit /\ [][PairNext]_vars

\* One UIStateManager called directly, for two session ids.
UIErrors == {ProviderError, ChunkError}

UIUpdates ==
  {[isLoading |-> TRUE], [isThinking |-> TRUE], [isThinking |-> FALSE],
   [currentTool |-> ToolName], [currentTool |-> Undef],
   [isLoading |-> FALSE, error |-> ErrNull]}

\* What the last call was: its name, the id and argument it was given, what
\* it returned and the error it raised.
UIStep(act, id, arg, res, err) ==
  [act |-> act, id |-> id, res |-> res, saves |-> 0, err |-> err, arg |-> arg]

UIInit ==
  /\ ui = [i \in Ids |-> Null]
  /\ store = EmptyStore
  /\ now = 0
  /\ pool = {}
  /\ issued = {}
  /\ calls = [k \in {1} |-> Idle]
  /\ active = {}
  /\ last = UIStep("new", "-", Null, Null, ErrNull)
  /\ ToolConstruct(DEFAULT_MAX_TOOL_CALLS)

UIFrame ==
  /\ UNCHANGED <<store, now, pool, issued, calls, active>>
  /\ UNCHANGED toolVars

UIInitialize ==
  /\ \E id \in Ids :
       IF InitializeThrows(ui, id)
       THEN /\ ui' = ui
            /\ last' = UIStep("initializeState", id, Null, Null, InitializeError)
       ELSE /\ ui' = InitializeState(ui, id)
            /\ last' = UIStep("initializeState", id, Null,
                              GetState(InitializeState(ui, id), id), ErrNull)
  /\ UIFrame

UIUpdate ==
  /\ \E id \in Ids, upd \in UIUpdates :
       IF UpdateThrows(ui, id)
       THEN /\ ui' = ui
            /\ last' = UIStep("updateState", id, upd, Null, NoUIStateError)
       ELSE /\ ui' = UpdateState(ui, id, upd)
            /\ last' = UIStep("updateState", id, upd,
                              GetState(UpdateState(ui, id, upd), id), ErrNull)
  /\ UIFrame

UISetError ==
  /\ \E id \in Ids, e \in UIErrors :
       /\ ui' = SetError(ui, id, e)
       /\ last' = UIStep("setError", id, [error |-> e], Null, ErrNull)
  /\ UIFrame

UIClearError ==
  /\ \E id \in Ids :
       /\ ui' = ClearError(ui, id)
       /\ last' = UIStep("clearError", id, Null, Null, ErrNull)
  /\ UIFrame

UIDelete ==
  /\ \E id \in Ids :
       /\ ui' = DeleteState(ui, id)
       /\ last' = UIStep("deleteState", id, Null, Null, ErrNull)
  /\ UIFrame

UINext == UIInitialize \/ UIUpdate \/ UISetError \/ UIClearError \/ UIDelete

UISpec == UIInit /\ [][UINext]_vars

\* The coordinator of Spec, called with a maxToolCalls argument as well.
ConfigureNext ==
  \/ Next
  \/ \E k \in DOMAIN calls : InitStartWithLimit(k)

ConfigureSpec == Init /\ [][ConfigureNext]_vars

\* One coordinator, one session, two calls in flight at a time on the same
\* id, their steps interleaved in any order; streams as in PairSpec.
OverlapBound ==
  \A k \in DOMAIN calls :
    calls[k].op = "stream" =>
      /\ Len(calls[k].produced) <= MaxPairChunks
      /\ Range(calls[k].produced) \subseteq PairChunks

OverlapInit == InitWith({1, 2}, {"s1"}) /\ ToolConstruct(DEFAULT_MAX_TOOL_CALLS)

OverlapNext == \E k \in DOMAIN calls : CallStep(k) /\ OverlapBound'

OverlapSpec == OverlapInit /\ [][OverlapNext]_vars

\* The coordinator over a Storage whose quota comes and goes: while it is
\* exceeded every setItem throws.
QuotaChange ==
  /\ store' = [store EXCEPT !.full = ~@]
  /\ UNCHANGED <<ui, now, pool, issued, calls, active, last>>
  /\ UNCHANGED toolVars

FaultNext == Next \/ QuotaChange

FaultSpec == Init /\ [][FaultNext]_vars

\* One SessionPersistenceManager called directly over a working Storage,
\* the clock standing at MaxClockDays days. Sessions are saved under any id,
\* the index key's own among them, with a lastActive of the caller's choice.
StoreIds == Ids \cup {IndexId}

AgeDays ==
  {0, SESSION_EXPIRY_DAYS - 1, SESSION_EXPIRY_DAYS, SESSION_EXPIRY_DAYS + 1}

StoreSweepDays == {SESSION_EXPIRY_DAYS, SESSION_EXPIRY_DAYS - 1}

StoreUIStates ==
  {InitialUIState,
   [InitialUIState EXCEPT !.isLoading = TRUE, !.currentTool = ToolName]}

\* What the last call was: its name, the id and argument it was given and
\* what it returned.
StoreStep(act, id, arg, res) ==
  [act |-> act, id |-> id, res |-> res, saves |-> 0, err |-> ErrNull,
   arg |-> arg]

StoreInit ==
  /\ ui = [i \in Ids |-> Null]
  /\ store = EmptyStore
  /\ now = MaxClockDays * DayMs
  /\ pool = {}
  /\ issued = {}
  /\ calls = [k \in {1} |-> Idle]
  /\ active = {}
  /\ last = StoreStep("new", "-", "-", "ok")
  /\ ToolConstruct(DEFAULT_MAX_TOOL_CALLS)

StoreFrame ==
  /\ UNCHANGED <<ui, now, pool, issued, calls, active>>
  /\ UNCHANGED toolVars

\* The metadata of a saved session: none, a string, a Date.
StoreMetadata ==
  {Null, [at |-> [str |-> "2024-01-01"]], [at |-> [date |-> "2024-01-01"]]}

StoreSave ==
  /\ \E id \in StoreIds, d \in AgeDays, u \in StoreUIStates, m \in StoreMetadata :
       LET bare == [id |-> id, lastActive |-> now - d * DayMs, uiState |-> u]
           sess == IF m = Null THEN bare
                   ELSE [id |-> id, lastActive |-> now - d * DayMs,
                         uiState |-> u, metadata |-> m]
       IN /\ store' = SaveSession(store, sess)
          /\ last' = StoreStep("saveSession", id, sess, "ok")
  /\ StoreFrame

StoreDelete ==
  /\ \E id \in StoreIds :
       /\ store' = DeleteSession(store, id)
       /\ last' = StoreStep("deleteSession", id, "-", "ok")
  /\ StoreFrame

\* updateSessionActivity(id), not called with IndexId while the index key
\* holds the id array.
StoreTouch ==
  /\ \E id \in StoreIds :
       /\ id = IndexId => Clobbered(store)
       /\ store' = UpdateSessionActivity(store, id, now)
       /\ last' = StoreStep("updateSessionActivity", id, "-", "ok")
  /\ StoreFrame

StoreSweep ==
  /\ \E days \in StoreSweepDays :
       LET swept == CleanupExpiredSessions(store, days, now)
       IN /\ store' = swept.store
          /\ last' = StoreStep("cleanupExpiredSessions", "-", days, swept.expired)
  /\ StoreFrame

StoreNext == StoreSave \/ StoreDelete \/ StoreTouch \/ StoreSweep

StoreSpec == StoreInit /\ [][StoreNext]_vars

\* One SessionPersistenceManager called with the ids of sessions over a
\* Storage that rejects single writes: any setItem may throw, so a call may
\* be cut short at its write of the index.
PartialSave == StoreSave /\ last'.id \in Ids

PartialSaveInterrupted ==
  /\ \E id \in Ids, d \in AgeDays :
       LET sess == [id |-> id, lastActive |-> now - d * DayMs,
                    uiState |-> InitialUIState]
       IN /\ store' = SaveSessionIndexRejected(store, sess)
          /\ last' = StoreStep("saveSession", id, sess, "index_rejected")
  /\ StoreFrame

PartialDelete == StoreDelete /\ last'.id \in Ids

PartialDeleteInterrupted ==
  /\ \E id \in Ids :
       /\ store' = DeleteSessionIndexRejected(store, id)
       /\ last' = StoreStep("deleteSession", id, "-", "index_rejected")
  /\ StoreFrame

PartialNext ==
  \/ PartialSave
  \/ PartialSaveInterrupted
  \/ PartialDelete
  \/ PartialDeleteInterrupted
  \/ StoreSweep

PartialSpec == StoreInit /\ [][PartialNext]_vars

----------------------------------------------------------------------------
\* Properties of the coordinator.

InFlight(k, op, id) ==
  calls[k].op = op /\ "id" \in DOMAIN calls[k] /\ calls[k].id = id

Slots == DOMAIN calls

\* An initializeSession that has its session id and has not returned yet.
Initializing(id) ==
  \E k \in Slots : InFlight(k, "init", id)

Persisted(id) == LoadSession(store, id)

Indexed(id) == id \in Range(GetSessionIds(store))

\* The chunks of a stream that end its loading state.
Terminal(c) == c.type \in {"error", "done"}

HasTerminal(p) == \E i \in 1..Len(p) : Terminal(p[i])

C2_InitializeRollback ==
  (last.act = "init" /\ last.res = "configure_failed") =>
    /\ GetState(ui, last.id) = Null
    /\ Persisted(last.id) = Null
    /\ ~Indexed(last.id)

\* C2 witness: initializeSession has rejected on configure.
C2_Witness ==
  /\ last.act = "init" /\ last.res = "configure_failed"
  /\ last.id \in issued

C4_AbandonedStreamNotLoading ==
  (last.act = "stream" /\ last.res = "abandoned") =>
    /\ GetState(ui, last.id) # Null => ~GetState(ui, last.id).isLoading
    /\ Persisted(last.id) # Null => ~Persisted(last.id).uiState.isLoading

\* The message an error chunk carries.
MessageOf(c) == IF "error" \in DOMAIN c THEN c.error ELSE UnknownError

\* C5 as claimed: an error chunk sets and persists the error state, and
\* it ends the stream: no chunk after it is handled or delivered.
C5_Original ==
  /\ (last.act = "chunk" /\ last.res = "error") =>
       /\ GetState(ui, last.id).error # ErrNull
       /\ ~GetState(ui, last.id).isLoading
       /\ ~GetState(ui, last.id).isThinking
       /\ Persisted(last.id).uiState = StringifyUI(GetState(ui, last.id))
  /\ \A k \in Slots :
       calls[k].op = "stream" =>
         \A i \in 1..Len(calls[k].produced) :
           calls[k].produced[i].type = "error" => i = Len(calls[k].produced)

\* C5 amended: handling an error chunk sets error to the chunk's message
\* with isLoading and isThinking false, persists that state and yields
\* the chunk; the stream stays open for the chunks that follow.
C5_ErrorChunkRecorded ==
  (last.act = "chunk" /\ last.res = "error") =>
    \E k \in Slots :
      /\ InFlight(k, "stream", last.id) /\ calls[k].pc = "open"
      /\ LET c == calls[k].produced[Len(calls[k].produced)]
             u == GetState(ui, last.id)
         IN /\ c.type = "error"
            /\ u.error = MessageOf(c)
            /\ ~u.isLoading /\ ~u.isThinking
            /\ last.saves = 1
            /\ Persisted(last.id).uiState = StringifyUI(u)
            /\ calls[k].delivered[Len(calls[k].delivered)] = c

\* C5 witness: the chunks after an error chunk were handled and delivered.
C5_Witness ==
  \E k \in Slots :
    /\ calls[k].op = "stream"
    /\ calls[k].produced = ErrorMidway
    /\ calls[k].delivered = ErrorMidway

\* C6 as claimed: a chunk is persisted exactly when it is a thinking,
\* tool_start, tool_result, error or done chunk; 4 writes for the
\* scenario's stream.
C6_Original ==
  /\ last.act = "chunk" =>
       (last.saves >= 1 <=>
          last.res \in {"thinking", "tool_start", "tool_result", "error", "done"})
  /\ \A k \in Slots :
       (calls[k].op = "stream" /\ calls[k].produced = Canonical) =>
         calls[k].writes = 4

\* C6 amended: a chunk is persisted (once) exactly when it is a thinking,
\* error or done chunk; tool_start, tool_result and content chunks are
\* not; 2 writes for the scenario's stream.
C6_PersistOnSignificantChunks ==
  /\ last.act = "chunk" =>
       /\ last.saves \in {0, 1}
       /\ last.saves = 1 <=> last.res \in {"thinking", "error", "done"}
  /\ \A k \in Slots :
       (calls[k].op = "stream" /\ calls[k].produced = Canonical) =>
         calls[k].writes = 2

\* C6 witness: the scenario's stream was consumed with 2 writes.
C6_Witness ==
  \E k \in Slots :
    /\ calls[k].op = "stream" /\ calls[k].pc = "activity"
    /\ calls[k].produced = Canonical
    /\ calls[k].writes = 2

\* C7: what the generator has yielded is what the adapter has produced:
\* the same chunks in the same order.
C7_ChunksForwarded ==
  \A k \in Slots :
    calls[k].op = "stream" => calls[k].delivered = calls[k].produced

\* C7 witness: a stream with an error chunk midway was forwarded whole.
C7_Witness ==
  \E k \in Slots :
    /\ calls[k].op = "stream" /\ calls[k].pc = "activity"
    /\ calls[k].delivered = <<ErrorNoMessage, Content>>

\* The UIState the scenario's stream leaves.
SettledUIState ==
  [isLoading |-> FALSE, isThinking |-> FALSE, error |-> ErrNull,
   currentTool |-> Undef]

\* C8, the states: along the scenario's stream the UIState is loading
\* after the call, thinking after thinking, on tool t after tool_start,
\* on no tool after tool_result, and settled after done.
C8_ScenarioStates ==
  \A k \in Slots :
    (calls[k].op = "stream" /\ IsPrefix(calls[k].produced, Canonical)) =>
      LET n == Len(calls[k].produced)
          u == GetState(ui, calls[k].id)
      IN /\ n < 5 => u.isLoading
         /\ n = 0 => u.error = ErrNull
         /\ n \in 1..4 => u.isThinking
         /\ n = 2 => u.currentTool = ToolName
         /\ n \in {3, 4} => u.currentTool = Undef
         /\ n = 5 => u = SettledUIState

\* C8: the states above, and the end of the generator leaves the UIState
\* as the last chunk left it.
C8_StreamingStateSequence ==
  /\ []C8_ScenarioStates
  /\ [][(last'.act = "stream" /\ last'.res = "ok") => ui' = ui]_vars

\* C8 witness: the scenario's stream was consumed to its end.
C8_Witness ==
  \E k \in Slots :
    /\ calls[k].op = "stream" /\ calls[k].pc = "activity"
    /\ calls[k].produced = Canonical
    /\ GetState(ui, calls[k].id) = SettledUIState

\* C9: when recoverSession rejects, no persisted record and no index
\* entry of the id remain.
C9_FailedRecoveryDeletes ==
  (last.act = "recover" /\ last.res = "failed") =>
    /\ Persisted(last.id) = Null
    /\ ~Indexed(last.id)

\* C9 witness: recovery failed for a session that is still active here.
C9_Witness ==
  /\ last.act = "recover" /\ last.res = "failed"
  /\ GetState(ui, last.id) # Null
  /\ last.id \in active

\* C10: after a successful recoverSession the UIState of the id exists
\* and its error is null.
C10_RecoveryClearsError ==
  (last.act = "recover" /\ last.res = "ok") =>
    /\ GetState(ui, last.id) # Null
    /\ GetState(ui, last.id).error = ErrNull

\* C10 witness: the recovered snapshot holds an error, the UIState none.
C10_Witness ==
  /\ last.act = "recover" /\ last.res = "ok"
  /\ Persisted(last.id) # Null
  /\ Persisted(last.id).uiState.error = ChunkError
  /\ GetState(ui, last.id).error = ErrNull

C12_Original ==
  [][\A k \in Slots :
       (/\ calls[k].op = "recover" /\ calls[k].persisted = Null
        /\ last'.act = "recover" /\ last'.res = "ok") =>
         GetState(ui', calls[k].id) = InitialUIState]_vars

\* C12 amended: when recoverSession returns and loadSession had found no
\* snapshot, an id without UIState gets the fresh default, and an id with
\* a UIState keeps it with only error set to null.
C12_RecoverWithoutSnapshot ==
  [][\A k \in Slots :
       (/\ calls[k].op = "recover" /\ calls[k].persisted = Null
        /\ last'.act = "recover" /\ last'.res = "ok") =>
         LET before == GetState(ui, calls[k].id)
             after == GetState(ui', calls[k].id)
         IN IF before = Null
            THEN after = InitialUIState
            ELSE after = [before EXCEPT !.error = ErrNull]]_vars

\* C12 witness: recovery without a snapshot kept a loading UIState.
C12_Witness ==
  /\ last.act = "recover" /\ last.res = "ok"
  /\ Persisted(last.id) = Null
  /\ GetState(ui, last.id).isLoading
  /\ GetState(ui, last.id).error = ErrNull

\* C13: cleanupSession deletes nothing while the provider's end-session
\* call is awaited, and when it returns after that call succeeded the id
\* has no UIState, no persisted record and no entry in the id index.
C13_CleanupDeletesAfterProvider ==
  [][\A k \in Slots :
       /\ (calls[k] = Idle /\ calls'[k].op = "cleanup") =>
            (ui' = ui /\ store' = store)
       /\ (calls[k].op = "cleanup" /\ last'.act = "cleanup" /\ last'.res = "ok") =>
            /\ GetState(ui', calls[k].id) = Null
            /\ LoadSession(store', calls[k].id) = Null
            /\ calls[k].id \notin Range(GetSessionIds(store'))
            /\ last'.err = ErrNull]_vars

\* C13 witness: cleanupSession has returned for a session that was
\* initialized, and nothing of it is left.
C13_Witness ==
  /\ last.act = "cleanup" /\ last.res = "ok"
  /\ last.id \in issued /\ last.id \notin active
  /\ GetState(ui, last.id) = Null
  /\ ~Indexed(last.id)

\* C14: when the provider's end-session call fails, cleanupSession raises
\* the cleanup error and leaves every UIState and the storage as they
\* were, and cleanupSession can be called for the id again.
C14_FailedCleanupKeepsState ==
  [][\A k \in Slots :
       (calls[k].op = "cleanup" /\ last'.act = "cleanup" /\ last'.res = "failed") =>
         /\ ui' = ui
         /\ store' = store
         /\ last'.err = CleanupError
         /\ calls'[k] = Idle /\ calls[k].id \in Issued']_vars

\* C14 witness: a cleanup has failed and the session still has its
\* UIState and its persisted record.
C14_Witness ==
  /\ last.act = "cleanup" /\ last.res = "failed"
  /\ GetState(ui, last.id) # Null
  /\ Persisted(last.id) # Null
  /\ Indexed(last.id)

\* C15: when sendMessage rejects because the provider failed, the UIState
\* of the id has error equal to the failure's message with isLoading and
\* isThinking false, the persisted snapshot holds that same state, and
\* the error raised is the provider's.
C15_SendFailureRecorded ==
  (last.act = "send" /\ last.res = "failed") =>
    LET u == GetState(ui, last.id)
    IN /\ last.err = ProviderError
       /\ u # Null
       /\ u.error = last.err
       /\ ~u.isLoading /\ ~u.isThinking
       /\ last.saves = 1
       /\ Persisted(last.id) # Null
       /\ Persisted(last.id).uiState = StringifyUI(u)
       /\ Persisted(last.id).uiState.error = ProviderError

\* C15 witness: a sendMessage has failed and the error is in both places.
C15_Witness ==
  /\ last.act = "send" /\ last.res = "failed"
  /\ GetState(ui, last.id).error = ProviderError
  /\ Persisted(last.id).uiState.error = ProviderError

\* C16: a sendMessage the provider completes saves once before the
\* provider call (isLoading true, error null), not at all while the
\* provider is awaited, and once after it (isLoading false); it returns
\* with isLoading false and error null.
C16_SendSavesTwice ==
  /\ (last.act = "send_start") =>
       /\ last.saves = 1
       /\ Persisted(last.id).uiState.isLoading
       /\ Persisted(last.id).uiState.error = ErrNull
  /\ (last.act = "send_sent") => last.saves = 0
  /\ (last.act = "send" /\ last.res = "ok") =>
       /\ last.saves = 1 /\ last.err = ErrNull
       /\ ~Persisted(last.id).uiState.isLoading
       /\ Persisted(last.id).uiState = StringifyUI(GetState(ui, last.id))
       /\ ~GetState(ui, last.id).isLoading
       /\ GetState(ui, last.id).error = ErrNull

\* C16 witness: a sendMessage has returned after its second save.
C16_Witness ==
  /\ last.act = "send" /\ last.res = "ok"
  /\ last.saves = 1
  /\ ~GetState(ui, last.id).isLoading
  /\ Persisted(last.id).lastActive = now

\* C17: sendMessage and sendMessageStream for an id without UIState raise
\* the no-UI-state error, change no UIState and nothing in the storage,
\* and call no provider: a call reaches the provider only for an id that
\* has a UIState.
C17_SendRequiresUIState ==
  [][/\ (last' # last /\ last'.act \in {"send", "stream"}
         /\ last'.res = "no_ui_state") =>
          /\ GetState(ui, last'.id) = Null
          /\ last'.err = NoUIStateError /\ last'.saves = 0
          /\ ui' = ui /\ store' = store /\ calls' = calls
     /\ \A k \in Slots :
          (calls[k] = Idle /\ calls'[k].op \in {"send", "stream"}) =>
            GetState(ui, calls'[k].id) # Null
     /\ (last' # last /\ last'.act = "stream" /\ last'.res = "start_failed") =>
          GetState(ui, last'.id) # Null]_vars

\* C17 witness: a stream was refused for a session that had been
\* initialized and is cleaned up, restarted away or rolled back.
C17_Witness ==
  /\ last.act = "stream" /\ last.res = "no_ui_state"
  /\ last.err = NoUIStateError
  /\ last.id \in issued
  /\ GetState(ui, last.id) = Null

\* C18: when the generator ends because the adapter's stream or the
\* provider's activity update raised, the UIState of the id has error
\* equal to the failure's message with isLoading and isThinking false, the
\* persisted snapshot holds that state, and the error raised to the
\* consumer is the one that was caught.
C18_StreamFailureRecorded ==
  (last.act = "stream" /\ last.res = "failed") =>
    LET u == GetState(ui, last.id)
    IN /\ last.err = ProviderError
       /\ u # Null
       /\ u.error = last.err
       /\ ~u.isLoading /\ ~u.isThinking
       /\ last.saves = 1
       /\ Persisted(last.id) # Null
       /\ Persisted(last.id).uiState = StringifyUI(u)

\* C18 witness: the stream failed while a tool was running, and the
\* snapshot holds the error and the tool.
C18_Witness ==
  /\ last.act = "stream" /\ last.res = "failed"
  /\ GetState(ui, last.id).error = ProviderError
  /\ GetState(ui, last.id).currentTool = ToolName
  /\ Persisted(last.id).uiState.error = ProviderError
  /\ Persisted(last.id).uiState.currentTool = ToolName

\* C19: when initializeSession returns after capability discovery failed,
\* it raises nothing, and the id has the default UIState, a persisted
\* record of that state and its entry in the id index.
C19_DiscoveryFailureSwallowed ==
  (last.act = "init" /\ last.res = "discover_failed") =>
    /\ last.err = ErrNull
    /\ GetState(ui, last.id) = InitialUIState
    /\ Persisted(last.id) # Null
    /\ Persisted(last.id).id = last.id
    /\ Persisted(last.id).uiState = StringifyUI(InitialUIState)
    /\ Indexed(last.id)

\* C19 witness: initializeSession has returned a session whose capability
\* discovery failed.
C19_Witness ==
  /\ last.act = "init" /\ last.res = "discover_failed"
  /\ last.id \in active
  /\ GetState(ui, last.id) # Null
  /\ Persisted(last.id) # Null

\* C20 as claimed: getToolCallCount() never exceeds the ceiling and never
\* decreases, whatever invokeToolOnServer calls are in flight.
C20_CountWithinCeiling ==
  /\ [](getToolCallCount <= maxToolCalls)
  /\ [][toolCallCount' >= toolCallCount]_vars

\* C21: with the calls made one after another against a server that
\* succeeds, the first maxToolCalls calls return a result and every later
\* call throws for the limit; a refused call sends no request and leaves
\* the count, so between calls the count and the requests sent both equal
\* the smaller of the calls made and the ceiling.
C21_SequentialQuota ==
  /\ \A i \in 1..Len(outcomes) :
       outcomes[i] = IF i <= maxToolCalls THEN "returned" ELSE "limit"
  /\ getToolCallCount <= maxToolCalls
  /\ NoneInFlight =>
       /\ getToolCallCount = IF Len(outcomes) <= maxToolCalls
                             THEN Len(outcomes) ELSE maxToolCalls
       /\ requests = getToolCallCount

\* C21 witness: ceiling 2, three calls: returned, returned, refused, with
\* count 2 and 2 requests sent.
C21_Witness ==
  /\ maxToolCalls = 2
  /\ outcomes = <<"returned", "returned", "limit">>
  /\ getToolCallCount = 2
  /\ requests = 2

\* C22 as claimed: the count equals the number of calls that returned a
\* result (read here between calls): a call that fails, in any of its
\* three ways, leaves the count as it was.
C22_CountEqualsReturned ==
  NoneInFlight =>
    getToolCallCount =
      Cardinality({i \in 1..Len(outcomes) : outcomes[i] = "returned"})

\* The entries an id has in the id index.
IndexEntries(id) ==
  Cardinality({i \in 1..Len(GetSessionIds(store)) : GetSessionIds(store)[i] = id})

\* C23 as claimed: an id that has a UIState has exactly one persisted
\* record: it is stored and it is listed once.
C23_UIStateHasOneRecord ==
  \A id \in Ids :
    GetState(ui, id) # Null =>
      (Persisted(id) # Null /\ IndexEntries(id) = 1)

\* C24: a record that a step writes gets the current time as lastActive,
\* which is not below the lastActive it replaces, and no stored record is
\* ahead of the clock: so the lastActive of an id never decreases, also
\* across a deletion.
C24_LastActiveMonotonic ==
  /\ [](\A id \in Ids : Persisted(id) # Null => Persisted(id).lastActive <= now)
  /\ [][\A id \in Ids :
          (/\ LoadSession(store', id) # Null
           /\ LoadSession(store', id) # LoadSession(store, id)) =>
            /\ LoadSession(store', id).lastActive = now'
            /\ LoadSession(store, id) # Null =>
                 LoadSession(store', id).lastActive
                   >= LoadSession(store, id).lastActive]_vars

\* C24 witness: a stream has written the record of a session again after
\* the clock advanced.
C24_Witness ==
  /\ last.act = "chunk" /\ last.saves = 1
  /\ now > 0
  /\ Persisted(last.id).lastActive = now


----------------------------------------------------------------------------
\* Properties of the persistence manager.

\* C25: a cleanupExpiredSessions(days) call deletes the indexed records
\* whose age now - lastActive is strictly greater than days * 86400000 ms
\* and returns their ids, each once; every other record, one whose age
\* equals the threshold included, loads afterwards as it did before.
C25_ExpiresStrictlyOlder ==
  [][last'.act = "cleanupExpiredSessions" =>
       \A id \in StoreIds :
         LET before == LoadSession(store, id)
             old == /\ id \in Range(GetSessionIds(store))
                    /\ before # Null
                    /\ now - before.lastActive > last'.arg * DayMs
         IN /\ Len(last'.res) = Cardinality(Range(last'.res))
            /\ old => (LoadSession(store', id) = Null /\ id \in Range(last'.res))
            /\ ~old => (LoadSession(store', id) = before /\ id \notin Range(last'.res))]_vars

\* C25 witness: expire(7) has removed the record that was 8 days old and
\* kept the one whose age is exactly 7 days.
C25_Witness ==
  /\ last.act = "cleanupExpiredSessions"
  /\ last.arg = SESSION_EXPIRY_DAYS
  /\ last.res = <<"s1">>
  /\ LoadSession(store, "s1") = Null
  /\ LoadSession(store, "s2") # Null
  /\ now - LoadSession(store, "s2").lastActive = SESSION_EXPIRY_DAYS * DayMs
  /\ "s2" \in Range(GetSessionIds(store))


\* C26: constructing a SessionManager runs one expiry sweep with the
\* default 7-day threshold before anything else: right after construction
\* no id of the index has a record older than 7 days, the storage is what
\* that one sweep leaves, and a record not older than 7 days is kept.
C26_ConstructorSweeps ==
  [][(last'.act = "construct" /\ now' = now) =>
       /\ \A id \in Ids :
            (id \in Range(GetSessionIds(store')) /\ LoadSession(store', id) # Null) =>
              now' - LoadSession(store', id).lastActive <= SESSION_EXPIRY_DAYS * DayMs
       /\ last.act # "construct" =>
            /\ store' = CleanupExpiredSessions(store, SESSION_EXPIRY_DAYS, now).store
            /\ \A id \in Ids :
                 (/\ LoadSession(store, id) # Null
                  /\ now - LoadSession(store, id).lastActive <= SESSION_EXPIRY_DAYS * DayMs) =>
                   LoadSession(store', id) = LoadSession(store, id)]_vars

\* C26 witness: a SessionManager constructed more than 7 days after the
\* session it had persisted was last active finds no record of it.
C26_Witness ==
  /\ last.act = "construct"
  /\ "s1" \in issued
  /\ now > SESSION_EXPIRY_DAYS * DayMs
  /\ LoadSession(store, "s1") = Null
  /\ "s1" \notin Range(GetSessionIds(store))


\* The storage s with its writes accepted (ok) or rejected.
Quota(s, ok) == [s EXCEPT !.full = ~ok]

\* Two outcomes of a handler agree in the UIStates and in what is raised.
SameOutcome(a, b) == a.ui = b.ui /\ Raised(a) = Raised(b)

Reads(u) == [f \in UIFields |-> Field(u, f)]

\* Two sessions are equal: same id, lastActive and metadata, and UIStates
\* that read the same.
SameSession(a, b) ==
  /\ a.id = b.id
  /\ a.lastActive = b.lastActive
  /\ Reads(a.uiState) = Reads(b.uiState)
  /\ ("metadata" \in DOMAIN a) = ("metadata" \in DOMAIN b)
  /\ "metadata" \in DOMAIN a => a.metadata = b.metadata

\* The session holds JSON values only: no Date in its metadata.
JsonSafe(s) ==
  "metadata" \in DOMAIN s =>
    \A k \in DOMAIN s.metadata : JsonValue(s.metadata[k]) = s.metadata[k]

C29_IndexMatchesRecords ==
  LET ids == GetSessionIds(store)
  IN /\ ~Clobbered(store)
     /\ Len(ids) = Cardinality(Range(ids))
     /\ \A id \in StoreIds :
          id \in Range(ids) <=> LoadSession(store, id) # Null


\* C30: a step of a coordinator operation on one session leaves the UIState
\* and the PersistedSession record of every other session as they were,
\* whatever else is in flight.
C30_OtherSessionsUntouched ==
  [][last'.id \in Ids =>
       \A other \in Ids \ {last'.id} :
         /\ GetState(ui', other) = GetState(ui, other)
         /\ LoadSession(store', other) = LoadSession(store, other)]_vars

\* C30 witness: a stream on s1 and a send on s2 are in flight together; the
\* thinking chunk of s1 has been handled and s2 is still as its send left
\* it, in memory and in storage.
C30_Witness ==
  /\ last.act = "chunk" /\ last.id = "s1" /\ last.res = "thinking"
  /\ \E k \in Slots : InFlight(k, "stream", "s1")
  /\ \E k \in Slots : InFlight(k, "send", "s2")
  /\ GetState(ui, "s1").isThinking
  /\ ~GetState(ui, "s2").isThinking /\ GetState(ui, "s2").isLoading
  /\ LoadSession(store, "s2").uiState.isLoading
  /\ ~LoadSession(store, "s2").uiState.isThinking



----------------------------------------------------------------------------
\* Properties of the UI state manager.

\* C31 as stated: initializeState(id) fails for an id that has a UIState and
\* leaves that UIState unchanged; for an id without one it creates
\* {isLoading: false, isThinking: false, error: null}.
C31_Original ==
  [][last'.act = "initializeState" =>
       IF GetState(ui, last'.id) # Null
       THEN last'.err # ErrNull /\ ui' = ui
       ELSE GetState(ui', last'.id) = InitialUIState]_vars

\* C31 amended: initializeState(id) never raises; whether or not the id had
\* a UIState it has {isLoading: false, isThinking: false, error: null}
\* afterwards, which is what the call returns, and the UIStates of the
\* other ids are unchanged.
C31_InitializeReplaces ==
  [][last'.act = "initializeState" =>
       /\ last'.err = ErrNull
       /\ last'.res = InitialUIState
       /\ GetState(ui', last'.id) = InitialUIState
       /\ \A other \in Ids \ {last'.id} :
            GetState(ui', other) = GetState(ui, other)]_vars

\* C31 witness: initializeState was called for s1 while s2 holds a UIState
\* with an error; s1 has the initial state and s2 keeps its error.
C31_Witness ==
  /\ last.act = "initializeState" /\ last.id = "s1"
  /\ GetState(ui, "s1") = InitialUIState
  /\ GetState(ui, "s2") # Null
  /\ GetState(ui, "s2").error = ChunkError


\* C32: setError(id, m) on an existing UIState sets error to m, isLoading
\* and isThinking to false and leaves currentTool; a second setError(id, m)
\* changes nothing more; for an id without a UIState it neither raises nor
\* creates one.
C32_SetErrorTerminates ==
  [][last'.act = "setError" =>
       LET id == last'.id
           m == last'.arg.error
       IN /\ last'.err = ErrNull
          /\ IF GetState(ui, id) = Null
             THEN ui' = ui
             ELSE /\ GetState(ui', id).error = m
                  /\ ~GetState(ui', id).isLoading
                  /\ ~GetState(ui', id).isThinking
                  /\ GetState(ui', id).currentTool = GetState(ui, id).currentTool
                  /\ SetError(ui', id, m) = ui']_vars

\* C32 witness: setError has ended the indicators of a session that has a
\* current tool, which it keeps.
C32_Witness ==
  /\ last.act = "setError"
  /\ GetState(ui, last.id) # Null
  /\ GetState(ui, last.id).error = last.arg.error
  /\ GetState(ui, last.id).currentTool = ToolName
  /\ ~GetState(ui, last.id).isLoading

\* C33: updateState(id, partial) sets the fields of partial and leaves every
\* other field of the id's UIState (isThinking leaves a currentTool set
\* before); the UIStates of the other ids are unchanged; for an id without
\* a UIState it raises and creates none.
C33_UpdateFrame ==
  [][last'.act = "updateState" =>
       LET id == last'.id
           upd == last'.arg
       IN /\ \A other \in Ids \ {id} : GetState(ui', other) = GetState(ui, other)
          /\ IF GetState(ui, id) = Null
             THEN last'.err = NoUIStateError /\ ui' = ui
             ELSE /\ last'.err = ErrNull
                  /\ last'.res = GetState(ui', id)
                  /\ \A f \in UIFields :
                       GetState(ui', id)[f] =
                         IF f \in DOMAIN upd THEN upd[f] ELSE GetState(ui, id)[f]]_vars

\* C33 witness: updateState(id, {isThinking: true}) on a UIState with a
\* current tool, while the other session has a UIState of its own.
C33_Witness ==
  /\ last.act = "updateState" /\ last.arg = [isThinking |-> TRUE]
  /\ last.err = ErrNull
  /\ GetState(ui, last.id).isThinking
  /\ GetState(ui, last.id).currentTool = ToolName
  /\ \E other \in Ids \ {last.id} :
       GetState(ui, other) # Null /\ ~GetState(ui, other).isThinking


----------------------------------------------------------------------------
\* Properties of the coordinator under overlapping calls.

\* C34 as stated: in every reachable state a UIState whose error is
\* non-null has isLoading = false and isThinking = false.
C34_Original ==
  \A id \in Ids :
    (GetState(ui, id) # Null /\ GetState(ui, id).error # ErrNull) =>
      (~GetState(ui, id).isLoading /\ ~GetState(ui, id).isThinking)


\* A UIState that shows an error together with an indicator.
ErrorWithThinking(u, id) ==
  GetState(u, id) # Null /\ GetState(u, id).error # ErrNull /\ GetState(u, id).isThinking

\* C34 amended: a UIState whose error is non-null has isLoading = false,
\* also while calls for the id overlap; it has isThinking = false as well
\* until a thinking chunk of a stream still being consumed is handled with
\* the error recorded, which sets isThinking = true and leaves the error.
C34_ErrorEndsLoading ==
  /\ [](\A id \in Ids :
          (GetState(ui, id) # Null /\ GetState(ui, id).error # ErrNull) =>
            ~GetState(ui, id).isLoading)
  /\ [][\A id \in Ids :
          (ErrorWithThinking(ui', id) /\ ~ErrorWithThinking(ui, id)) =>
            (last'.act = "chunk" /\ last'.res = "thinking" /\ last'.id = id
             /\ GetState(ui, id).error = GetState(ui', id).error)]_vars

\* C34 witness: an error chunk was recorded while another send for the id
\* is in flight; the UIState shows the error and no indicator.
C34_Witness ==
  /\ last.act = "chunk" /\ last.res = "error"
  /\ \E k \in Slots : InFlight(k, "send", last.id)
  /\ \E k \in Slots : InFlight(k, "stream", last.id)
  /\ GetState(ui, last.id).error = ChunkError
  /\ ~GetState(ui, last.id).isLoading /\ ~GetState(ui, last.id).isThinking


\* A recoverSession for the id is in flight.
Recovering(id) ==
  \E k \in Slots : InFlight(k, "recover", id)

\* C35: once cleanupSession(id) has completed with success, the step that
\* follows it, unless it belongs to an initializeSession or a recoverSession
\* of the id, leaves no record and no index entry for the id, also when it
\* is the end of a send that was in flight when the cleanup ran.
C35_NoRecordAfterCleanup ==
  [][(/\ last.act = "cleanup" /\ last.res = "ok"
      /\ ~Initializing(last.id) /\ ~Recovering(last.id)
      /\ last'.act \notin {"recover_start", "recover"}) =>
       /\ LoadSession(store', last.id) = Null
       /\ last.id \notin Range(GetSessionIds(store'))]_vars


\* No call of the coordinator for the id is in progress.
Quiet(id) == \A k \in Slots : ~("id" \in DOMAIN calls[k] /\ calls[k].id = id)

\* The stored snapshot of the id and its UIState read the same in all four
\* fields.
InSync(s, u, id) ==
  /\ LoadSession(s, id) # Null
  /\ LoadSession(s, id).uiState # Null
  /\ GetState(u, id) # Null
  /\ Reads(LoadSession(s, id).uiState) = Reads(GetState(u, id))

\* C36 as stated: whenever no operation for the id is in progress, the
\* uiState of its stored record equals its UIState in all four fields.
C36_Original ==
  \A id \in Ids :
    (Quiet(id) /\ LoadSession(store, id) # Null /\ GetState(ui, id) # Null) =>
      InSync(store, ui, id)


\* C36 amended: right after every step that persists, the uiState of the
\* stored record equals the UIState in all four fields; the two come apart
\* only by a tool_start or tool_result chunk, which changes currentTool in
\* memory alone, and by a successful recoverSession, which clears the error
\* in memory alone; they stay apart until the next persisting step.
C36_InSyncAfterPersist ==
  /\ [](last.saves >= 1 /\ GetState(ui, last.id) # Null =>
          InSync(store, ui, last.id))
  /\ [][\A id \in Ids :
          (/\ InSync(store, ui, id)
           /\ LoadSession(store', id) # Null /\ GetState(ui', id) # Null
           /\ ~InSync(store', ui', id)) =>
            /\ last'.id = id
            /\ \/ last'.act = "chunk" /\ last'.res \in {"tool_start", "tool_result"}
               \/ last'.act = "recover" /\ last'.res = "ok"]_vars

\* C36 witness: a stream that carried a tool_start chunk has ended and no
\* call is in progress; the UIState has the current tool, the stored
\* snapshot has none.
C36_Witness ==
  /\ last.act = "stream" /\ last.res = "ok"
  /\ Quiet(last.id)
  /\ GetState(ui, last.id).currentTool = ToolName
  /\ LoadSession(store, last.id) # Null
  /\ Reads(LoadSession(store, last.id).uiState).currentTool = Undef


\* C37: when the generator of sendMessageStream has been consumed to its
\* end without raising, the UIState of the id has isLoading = false and
\* isThinking = false, whatever chunks the adapter emitted.
C37_ExhaustedStreamSettles ==
  (last.act = "stream" /\ last.res = "ok" /\ GetState(ui, last.id) # Null) =>
    (~GetState(ui, last.id).isLoading /\ ~GetState(ui, last.id).isThinking)


\* C38: when initializeSession is given servers, configure is called with
\* max_tool_calls equal to the maxToolCalls argument, 0 included, and with
\* the default 10 when the argument is omitted.
C38_ConfigureGetsLimit ==
  \A k \in Slots :
    (calls[k].op = "init" /\ calls[k].pc = "configuring") =>
      calls[k].configure.max_tool_calls =
        IF calls[k].maxToolCalls = Null THEN CONFIGURE_MAX_TOOL_CALLS
        ELSE calls[k].maxToolCalls.value



----------------------------------------------------------------------------
\* Properties of the index.

\* A step that is the 7-day sweep of a constructor over a working storage.
ConstructorSweep ==
  /\ last'.act = "construct"
  /\ now' = now
  /\ ~store.full /\ ~store'.full

C40_StoredImpliesIndexed ==
  \A id \in Ids : store.items[id] # Null => Indexed(id)


====
